---- MODULE Spec2Model ----
(***************************************************************************)
(* A model of src/rsa.ts: the RSA arithmetic (gcd, modPow, modInverse),    *)
(* the Miller-Rabin test, prime and key generation, the per-character      *)
(* cipher with its text formats, the worker offload protocol of            *)
(* RSA.workerTask and the console menu loop.                               *)
(*                                                                         *)
(* Strings are sequences of character codes (44 is ",", 48..57 are the     *)
(* digits "0".."9", 61 is "=").  BigInt values are TLA+ integers; all the  *)
(* bounds keep every product below 2^31.                                   *)
(***************************************************************************)
EXTENDS Integers, Sequences, FiniteSets, TLC

(***************************************************************************)
(* Bounds of the model.                                                    *)
(***************************************************************************)
MaxBase == 12
MaxExp == 9
MaxMod == 12
MaxInv == 22
MaxN == 561
MaxHalfBits == 4
MaxErrLines == 2

(***************************************************************************)
(* Program constants.                                                      *)
(***************************************************************************)
PUBLIC_EXPONENT == 65537
K == 10

Comma == 44
Pad == 61
Digit0 == 48

(***************************************************************************)
(* Text: template literals `${x}`, BigInt(string), split and join.         *)
(***************************************************************************)
RECURSIVE ToDecimal(_)
ToDecimal(x) ==
  IF x < 10 THEN <<Digit0 + x>>
  ELSE Append(ToDecimal(x \div 10), Digit0 + (x % 10))

IsDigits(s, lo, hi) == \A i \in 1..Len(s) : s[i] >= lo /\ s[i] <= hi

RECURSIVE ParseRadix(_, _)
ParseRadix(s, radix) ==
  IF Len(s) = 0 THEN 0
  ELSE ParseRadix(SubSeq(s, 1, Len(s) - 1), radix) * radix + (s[Len(s)] - Digit0)

\* BigInt(s): the empty string is 0n, "0b..." is binary, digits are decimal,
\* anything else throws SyntaxError (ok = FALSE).
BigInt(s) ==
  IF Len(s) > 2 /\ s[1] = 48 /\ s[2] = 98 /\ IsDigits(SubSeq(s, 3, Len(s)), 48, 49)
    THEN [ok |-> TRUE, val |-> ParseRadix(SubSeq(s, 3, Len(s)), 2)]
  ELSE IF IsDigits(s, 48, 57)
    THEN [ok |-> TRUE, val |-> ParseRadix(s, 10)]
  ELSE [ok |-> FALSE, val |-> 0]

\* s.split(","): always at least one field, "" gives [""].
RECURSIVE SplitFrom(_, _, _)
SplitFrom(s, i, cur) ==
  IF i > Len(s) THEN <<cur>>
  ELSE IF s[i] = Comma THEN <<cur>> \o SplitFrom(s, i + 1, <<>>)
  ELSE SplitFrom(s, i + 1, Append(cur, s[i]))

Split(s) == SplitFrom(s, 1, <<>>)

\* s.slice(0, -1)
SliceDropLast(s) == IF Len(s) = 0 THEN <<>> ELSE SubSeq(s, 1, Len(s) - 1)

(***************************************************************************)
(* base64: Buffer.from(text).toString("base64"),                           *)
(* Buffer.from(token, "base64").toString() and atob(token).                *)
(***************************************************************************)
B64Char(i) ==
  IF i < 26 THEN 65 + i
  ELSE IF i < 52 THEN 97 + (i - 26)
  ELSE IF i < 62 THEN 48 + (i - 52)
  ELSE IF i = 62 THEN 43 ELSE 47

B64Val(c) ==
  IF c >= 65 /\ c <= 90 THEN c - 65
  ELSE IF c >= 97 /\ c <= 122 THEN c - 97 + 26
  ELSE IF c >= 48 /\ c <= 57 THEN c - 48 + 52
  ELSE IF c = 43 THEN 62
  ELSE IF c = 47 THEN 63
  ELSE -1

RECURSIVE base64Encode(_)
base64Encode(b) ==
  IF Len(b) = 0 THEN <<>>
  ELSE IF Len(b) = 1 THEN
    <<B64Char(b[1] \div 4), B64Char((b[1] % 4) * 16), Pad, Pad>>
  ELSE IF Len(b) = 2 THEN
    <<B64Char(b[1] \div 4), B64Char((b[1] % 4) * 16 + b[2] \div 16),
      B64Char((b[2] % 16) * 4), Pad>>
  ELSE
    <<B64Char(b[1] \div 4), B64Char((b[1] % 4) * 16 + b[2] \div 16),
      B64Char((b[2] % 16) * 4 + b[3] \div 64), B64Char(b[3] % 64)>>
    \o base64Encode(SubSeq(b, 4, Len(b)))

RECURSIVE StripPad(_)
StripPad(t) ==
  IF Len(t) > 0 /\ t[Len(t)] = Pad THEN StripPad(SubSeq(t, 1, Len(t) - 1)) ELSE t

RECURSIVE DecodeGroups(_)
DecodeGroups(t) ==
  IF Len(t) < 2 THEN <<>>
  ELSE IF Len(t) = 2 THEN
    <<B64Val(t[1]) * 4 + B64Val(t[2]) \div 16>>
  ELSE IF Len(t) = 3 THEN
    <<B64Val(t[1]) * 4 + B64Val(t[2]) \div 16,
      (B64Val(t[2]) % 16) * 16 + B64Val(t[3]) \div 4>>
  ELSE
    <<B64Val(t[1]) * 4 + B64Val(t[2]) \div 16,
      (B64Val(t[2]) % 16) * 16 + B64Val(t[3]) \div 4,
      (B64Val(t[3]) % 4) * 64 + B64Val(t[4])>>
    \o DecodeGroups(SubSeq(t, 5, Len(t)))

IsBase64Text(t) == \A i \in 1..Len(t) : B64Val(t[i]) >= 0

\* Buffer.from(token, "base64").toString(), for tokens over the base64
\* alphabet with optional trailing padding.
base64Decode(token) == DecodeGroups(StripPad(token))

\* atob(token): throws (ok = FALSE) on a character outside the alphabet or
\* on a length of 4k+1 once the padding is removed.
atob(token) ==
  LET t == IF Len(token) % 4 = 0 /\ Len(StripPad(token)) >= Len(token) - 2
           THEN StripPad(token) ELSE token
  IN IF IsBase64Text(t) /\ Len(t) % 4 # 1
       THEN [ok |-> TRUE, val |-> DecodeGroups(t)]
       ELSE [ok |-> FALSE, val |-> <<>>]

(***************************************************************************)
(* Modular arithmetic primitives.                                          *)
(***************************************************************************)
RECURSIVE gcd(_, _)
gcd(a, b) == IF b # 0 THEN gcd(b, a % b) ELSE a

RECURSIVE modPowLoop(_, _, _, _)
modPowLoop(result, base, exponent, modulus) ==
  IF exponent > 0
    THEN modPowLoop(IF exponent % 2 = 1 THEN (result * base) % modulus ELSE result,
                    (base * base) % modulus, exponent \div 2, modulus)
    ELSE result

modPow(base, exponent, modulus) == modPowLoop(1, base % modulus, exponent, modulus)

RECURSIVE modInverseLoop(_, _, _, _)
modInverseLoop(a, m, x0, x1) ==
  IF a > 1
    THEN modInverseLoop(m, a % m, x1 - (a \div m) * x0, x0)
    ELSE x1

\* modInverse without the final "if (x1 < 0) x1 += m0".
modInverseNoCorrection(a, m) ==
  IF m = 1 THEN 0 ELSE modInverseLoop(a, m, 0, 1)

modInverse(a, m) ==
  IF m = 1 THEN 0
  ELSE LET x1 == modInverseLoop(a, m, 0, 1)
       IN IF x1 < 0 THEN x1 + m ELSE x1

(***************************************************************************)
(* Miller-Rabin: the structural checks, the decomposition n-1 = 2^s * r,   *)
(* the interval the witnesses are drawn from and one round of the loop.    *)
(***************************************************************************)
RECURSIVE Decompose(_, _)
Decompose(r, s) == IF r % 2 = 0 THEN Decompose(r \div 2, s + 1) ELSE <<r, s>>

\* a = BigInt(Math.floor(Math.random() * Number(n - minRandom))) + minRandom
WitnessRange(n) ==
  LET minRandom == IF n > 10 THEN n - 10 ELSE 2
  IN minRandom..(n - 1)

RECURSIVE squareLoop(_, _, _, _)
squareLoop(x, j, s, n) ==
  IF j < s /\ x # n - 1
    THEN LET x2 == modPow(x, 2, n)
         IN IF x2 = 1 THEN FALSE ELSE squareLoop(x2, j + 1, s, n)
    ELSE x = n - 1

\* A round whose squaring loop runs while j < s - 1.
roundPassesShortLoop(n, a) ==
  LET rs == Decompose(n - 1, 0)
      x == modPow(a, rs[1], n)
  IN IF x # 1 /\ x # n - 1 THEN squareLoop(x, 1, rs[2] - 1, n) ELSE TRUE

\* TRUE when the round with witness a does not return false.
roundPasses(n, a) ==
  LET rs == Decompose(n - 1, 0)
      x == modPow(a, rs[1], n)
  IN IF x # 1 /\ x # n - 1 THEN squareLoop(x, 1, rs[2], n) ELSE TRUE

\* The verdict of the checks that precede the rounds.
structuralVerdict(n) ==
  IF n < 2 THEN "composite"
  ELSE IF n = 2 \/ n = 3 THEN "prime"
  ELSE IF n % 2 = 0 THEN "composite"
  ELSE "running"

(***************************************************************************)
(* Prime and key generation.                                               *)
(***************************************************************************)
\* randomBits = "1" followed by bitLength-1 drawn characters, read as
\* BigInt("0b" + randomBits); rnd[i] is the i-th drawn character.
generateRandomOddNumber(bitLength, rnd) ==
  BigInt(<<48, 98, 49>> \o [i \in 1..(bitLength - 1) |-> rnd[i]]).val

RandomDraws(bitLength) == [1..(bitLength - 1) -> {48, 49}]

\* e = PUBLIC_EXPONENT unless gcd(e, phi) # 1; then candidates
\* floor(random * phi) are drawn until one is coprime with phi.
ExponentChoices(phi) ==
  IF gcd(PUBLIC_EXPONENT, phi) = 1 THEN {PUBLIC_EXPONENT}
  ELSE {e \in 0..(phi - 1) : gcd(e, phi) = 1}

keyText(x, n) == ToDecimal(x) \o <<Comma>> \o ToDecimal(n)

generateKeysFrom(p, q, e) ==
  LET n == p * q
      phi == (p - 1) * (q - 1)
      d == modInverse(e, phi)
  IN [p |-> p, q |-> q, n |-> n, phi |-> phi, e |-> e, d |-> d,
      publicKey |-> base64Encode(keyText(e, n)),
      privateKey |-> base64Encode(keyText(d, n))]

(***************************************************************************)
(* Cipher engine.  A result is [ok, val]; ok = FALSE when the code throws. *)
(***************************************************************************)
Thrown == [ok |-> FALSE, val |-> <<>>]

\* Buffer.from(key, "base64").toString().split(",").map(BigInt)
parseKey(key) ==
  LET f == Split(base64Decode(key))
  IN [ok |-> \A i \in 1..Len(f) : BigInt(f[i]).ok,
      n |-> Len(f),
      val |-> [i \in 1..Len(f) |-> BigInt(f[i]).val]]

RECURSIVE encryptChars(_, _, _)
encryptChars(message, e, n) ==
  IF Len(message) = 0 THEN <<>>
  ELSE ToDecimal(modPow(message[1], e, n)) \o <<Comma>>
       \o encryptChars(Tail(message), e, n)

\* modPow throws on a missing (undefined) or zero modulus.
encryptWorker(message, publicKey) ==
  LET k == parseKey(publicKey)
  IN IF ~k.ok THEN Thrown
     ELSE IF Len(message) = 0 THEN [ok |-> TRUE, val |-> <<>>]
     ELSE IF k.n < 2 \/ k.val[2] = 0 THEN Thrown
     ELSE [ok |-> TRUE,
           val |-> SliceDropLast(encryptChars(message, k.val[1], k.val[2]))]

RECURSIVE decryptChars(_, _, _)
decryptChars(units, d, n) ==
  IF Len(units) = 0 THEN <<>>
  ELSE <<modPow(BigInt(units[1]).val, d, n) % 65536>>
       \o decryptChars(Tail(units), d, n)

decryptWorker(encryptedMessage, privateKey) ==
  LET k == parseKey(privateKey)
      units == Split(encryptedMessage)
  IN IF ~k.ok THEN Thrown
     ELSE IF \E i \in 1..Len(units) : ~BigInt(units[i]).ok THEN Thrown
     ELSE IF k.n < 2 \/ k.val[2] = 0 THEN Thrown
     ELSE [ok |-> TRUE, val |-> decryptChars(units, k.val[1], k.val[2])]

(***************************************************************************)
(* State.                                                                  *)
(***************************************************************************)
VARIABLES
  fn, args, ret,                  \* a call of an arithmetic primitive
  mrN, mrI, mrVerdict, mrLiars,   \* millerRabinPrimalityTest(mrN) in progress
  kpc, bitLength, cand, primes,   \* generateKeys: position, candidate, p and q
  keys, message, encrypted, decrypted,
  workerData, wstate, chan,       \* the workers and their pending events
  promise, settled,               \* the callers' promises and their history
  mpc, mainState, proc,           \* the menu loop and the host process
  inKey, lastPrint, errLines

arithVars == <<fn, args, ret>>
mrVars == <<mrN, mrI, mrVerdict, mrLiars>>
keyVars == <<kpc, bitLength, cand, primes, keys, message, encrypted, decrypted>>
workerVars == <<workerData, wstate, chan, promise, settled>>
menuVars == <<mpc, mainState, proc, inKey, lastPrint, errLines>>
vars == <<arithVars, mrVars, keyVars, workerVars, menuVars>>

MaxCalls == 2
Calls == 1..MaxCalls

NoData == [action |-> "none", message |-> <<>>, key |-> <<>>]
Pending == [state |-> "pending", value |-> <<>>, reason |-> "none"]
NoKeys == generateKeysFrom(2, 2, 1)

ArithIdle == fn = "none" /\ args = <<>> /\ ret = 0
MRIdle == mrN = 0 /\ mrI = 0 /\ mrVerdict = "none" /\ mrLiars = TRUE
KeysIdle ==
  /\ kpc = "idle" /\ bitLength = 0 /\ cand = 0 /\ primes = <<>>
  /\ keys = NoKeys /\ message = <<>> /\ encrypted = Thrown /\ decrypted = Thrown
WorkersIdle ==
  /\ workerData = [c \in Calls |-> NoData]
  /\ wstate = [c \in Calls |-> "none"]
  /\ chan = [c \in Calls |-> <<>>]
  /\ promise = [c \in Calls |-> Pending]
  /\ settled = [c \in Calls |-> <<>>]
MenuIdle ==
  /\ mpc = "idle" /\ mainState = "running" /\ proc = "running"
  /\ inKey = <<>> /\ lastPrint = "none" /\ errLines = 0

(***************************************************************************)
(* The arithmetic primitives applied to bounded inputs.                    *)
(***************************************************************************)
CallGcd ==
  /\ fn = "none"
  /\ \E a \in 0..MaxMod, b \in 0..MaxMod :
       /\ fn' = "gcd" /\ args' = <<a, b>> /\ ret' = gcd(a, b)
  /\ UNCHANGED <<mrVars, keyVars, workerVars, menuVars>>

CallModPow ==
  /\ fn = "none"
  /\ \E base \in 0..MaxBase, exponent \in 0..MaxExp, modulus \in 1..MaxMod :
       /\ fn' = "modPow" /\ args' = <<base, exponent, modulus>>
       /\ ret' = modPow(base, exponent, modulus)
  /\ UNCHANGED <<mrVars, keyVars, workerVars, menuVars>>

\* modInverse is called with gcd(a, m) = 1 (line 21 guards line 25).
CallModInverse ==
  /\ fn = "none"
  /\ \E a \in (1..MaxInv) \cup {PUBLIC_EXPONENT}, m \in 1..MaxInv :
       /\ gcd(a, m) = 1
       /\ fn' = "modInverse" /\ args' = <<a, m>> /\ ret' = modInverse(a, m)
  /\ UNCHANGED <<mrVars, keyVars, workerVars, menuVars>>

ArithInit == ArithIdle /\ MRIdle /\ KeysIdle /\ WorkersIdle /\ MenuIdle
ArithNext == CallGcd \/ CallModPow \/ CallModInverse
SpecArith == ArithInit /\ [][ArithNext]_vars

(***************************************************************************)
(* Miller-Rabin, one round per step; the witness of a round is any value   *)
(* of the interval the code samples.                                       *)
(***************************************************************************)
RECURSIVE RefPow(_, _, _)
RefPow(a, e, n) ==
  IF e = 0 THEN 1 % n
  ELSE IF e % 2 = 0 THEN (RefPow(a, e \div 2, n) * RefPow(a, e \div 2, n)) % n
  ELSE ((a % n) * RefPow(a, e - 1, n)) % n

IsPrime(n) == n >= 2 /\ \A d \in 2..(n - 1) : n % d # 0

\* a is a strong liar for odd n > 2: with n - 1 = 2^s * r and r odd,
\* a^r = 1 or a^(2^j * r) = -1 (mod n) for some j < s.
StrongLiar(a, n) ==
  LET s == CHOOSE t \in 0..30 : (n - 1) % (2 ^ t) = 0 /\ ((n - 1) \div (2 ^ t)) % 2 = 1
      r == (n - 1) \div (2 ^ s)
  IN \/ RefPow(a, r, n) = 1
     \/ \E j \in 0..(s - 1) : RefPow(a, (2 ^ j) * r, n) = n - 1

MRRound ==
  /\ mrVerdict = "running"
  /\ \E a \in WitnessRange(mrN) :
       /\ mrLiars' = (mrLiars /\ StrongLiar(a, mrN))
       /\ IF roundPasses(mrN, a)
            THEN /\ mrI' = mrI + 1
                 /\ mrVerdict' = IF mrI + 1 < K THEN "running" ELSE "prime"
            ELSE /\ mrI' = mrI
                 /\ mrVerdict' = "composite"
  /\ UNCHANGED <<mrN, arithVars, keyVars, workerVars, menuVars>>

MRInit ==
  /\ mrN \in 0..MaxN
  /\ mrI = 0
  /\ mrVerdict = structuralVerdict(mrN)
  /\ mrLiars = TRUE
  /\ ArithIdle /\ KeysIdle /\ WorkersIdle /\ MenuIdle
MRNext == MRRound
SpecMR == MRInit /\ [][MRNext]_vars

(***************************************************************************)
(* generateKeys followed by one encryptWorker and one decryptWorker call.  *)
(* generatePrime draws candidates until millerRabinPrimalityTest accepts   *)
(* one; the rounds of the test are the steps of MRRound.                   *)
(***************************************************************************)
HalfBits == bitLength \div 2

\* Plaintexts: "", "A", "M", "Hi", "!~".
Messages == {<<>>, <<65>>, <<77>>, <<72, 105>>, <<33, 126>>}

GenerateCandidate ==
  /\ kpc \in {"genP", "genQ"}
  /\ mrVerdict \in {"none", "composite"}
  /\ \E rnd \in RandomDraws(HalfBits) :
       LET c == generateRandomOddNumber(HalfBits, rnd)
       IN /\ cand' = c
          /\ mrN' = c
          /\ mrI' = 0
          /\ mrLiars' = TRUE
          /\ mrVerdict' = structuralVerdict(c)
  /\ UNCHANGED <<kpc, bitLength, primes, keys, message, encrypted, decrypted>>
  /\ UNCHANGED <<arithVars, workerVars, menuVars>>

KeyMRRound == kpc \in {"genP", "genQ"} /\ MRRound

ReturnPrime ==
  /\ kpc \in {"genP", "genQ"}
  /\ mrVerdict = "prime"
  /\ primes' = Append(primes, cand)
  /\ kpc' = IF kpc = "genP" THEN "genQ" ELSE "keys"
  /\ mrVerdict' = "none"
  /\ UNCHANGED <<mrN, mrI, mrLiars, bitLength, cand, keys, message, encrypted, decrypted>>
  /\ UNCHANGED <<arithVars, workerVars, menuVars>>

GenerateKeys ==
  /\ kpc = "keys"
  /\ \E e \in ExponentChoices((primes[1] - 1) * (primes[2] - 1)) :
       keys' = generateKeysFrom(primes[1], primes[2], e)
  /\ kpc' = "encrypt"
  /\ UNCHANGED <<bitLength, cand, primes, message, encrypted, decrypted>>
  /\ UNCHANGED <<arithVars, mrVars, workerVars, menuVars>>

Encrypt ==
  /\ kpc = "encrypt"
  /\ \E m \in Messages :
       /\ message' = m
       /\ encrypted' = encryptWorker(m, keys.publicKey)
  /\ kpc' = "decrypt"
  /\ UNCHANGED <<bitLength, cand, primes, keys, decrypted>>
  /\ UNCHANGED <<arithVars, mrVars, workerVars, menuVars>>

Decrypt ==
  /\ kpc = "decrypt"
  /\ encrypted.ok
  /\ decrypted' = decryptWorker(encrypted.val, keys.privateKey)
  /\ kpc' = "done"
  /\ UNCHANGED <<bitLength, cand, primes, keys, message, encrypted>>
  /\ UNCHANGED <<arithVars, mrVars, workerVars, menuVars>>

KeysInit ==
  /\ kpc = "genP"
  /\ bitLength \in {2 * h : h \in 2..MaxHalfBits}
  /\ cand = 0 /\ primes = <<>>
  /\ keys = NoKeys /\ message = <<>> /\ encrypted = Thrown /\ decrypted = Thrown
  /\ ArithIdle /\ MRIdle /\ WorkersIdle /\ MenuIdle
KeysNext ==
  \/ GenerateCandidate
  \/ KeyMRRound
  \/ ReturnPrime
  \/ GenerateKeys
  \/ Encrypt
  \/ Decrypt
SpecKeys == KeysInit /\ [][KeysNext]_vars

(***************************************************************************)
(* The offload protocol: RSA.workerTask on the main thread and the worker  *)
(* entry code.  Call c owns the worker it creates and the promise it       *)
(* returns; chan[c] holds the events of worker c that the main thread has  *)
(* not handled yet.  settled[c] records every change of promise c as       *)
(* <<worker, event>>.                                                      *)
(***************************************************************************)
MessageEvent(v) == [type |-> "message", value |-> v, code |-> 0]
ErrorEvent == [type |-> "error", value |-> <<>>, code |-> 0]
ExitEvent(code) == [type |-> "exit", value |-> <<>>, code |-> code]

\* The worker's computation on its copy of workerData.
workerResult(data) ==
  IF data.action = "encrypt"
    THEN encryptWorker(data.message, data.key)
    ELSE decryptWorker(data.message, data.key)

\* A worker script that computes the result and does not post it.
workerEntryNoPost(data) ==
  IF workerResult(data).ok THEN <<>> ELSE <<ErrorEvent>>

\* What running the worker script emits: the posted result, or the
\* uncaught exception.
workerEntry(data) ==
  LET result == workerResult(data)
  IN IF result.ok THEN <<MessageEvent(result.val)>> ELSE <<ErrorEvent>>

exitCode(data) == IF workerResult(data).ok THEN 0 ELSE 1

\* resolve and reject act on a pending promise only.
Settle(pr, st, v, why) ==
  IF pr.state = "pending" THEN [state |-> st, value |-> v, reason |-> why] ELSE pr

\* The listeners registered on the worker, applied to the promise they close over.
onEvent(pr, ev) ==
  IF ev.type = "message" THEN Settle(pr, "resolved", ev.value, "none")
  ELSE IF ev.type = "error" THEN Settle(pr, "rejected", <<>>, "error")
  ELSE IF ev.code # 0 THEN Settle(pr, "rejected", <<>>, "exitcode")
  ELSE pr

\* Listeners that all hold the resolve and reject of the first call.
handlerTargetShared(w) == 1

\* The call whose resolve and reject the listeners of worker w hold.
handlerTarget(w) == w

WorkerFree(c) == wstate[c] \in {"none", "exited"} /\ chan[c] = <<>>

StartWorker(c, data) ==
  /\ workerData' = [workerData EXCEPT ![c] = data]
  /\ wstate' = [wstate EXCEPT ![c] = "running"]
  /\ promise' = [promise EXCEPT ![c] = Pending]
  /\ settled' = [settled EXCEPT ![c] = <<>>]
  /\ UNCHANGED chan

WorkerRun(c) ==
  /\ wstate[c] = "running"
  /\ chan' = [chan EXCEPT ![c] = chan[c] \o workerEntry(workerData[c])]
  /\ wstate' = [wstate EXCEPT ![c] =
                  IF workerResult(workerData[c]).ok THEN "posted" ELSE "faulted"]
  /\ UNCHANGED <<workerData, promise, settled>>
  /\ UNCHANGED <<arithVars, mrVars, keyVars, menuVars>>

WorkerExit(c) ==
  /\ wstate[c] \in {"posted", "faulted"}
  /\ chan' = [chan EXCEPT ![c] = Append(chan[c], ExitEvent(exitCode(workerData[c])))]
  /\ wstate' = [wstate EXCEPT ![c] = "exited"]
  /\ UNCHANGED <<workerData, promise, settled>>
  /\ UNCHANGED <<arithVars, mrVars, keyVars, menuVars>>

\* The main thread runs one listener; it cannot while it spins in the
\* synchronous loop of encryptMessage or once the process is gone.
HandleEvent(c) ==
  /\ proc = "running"
  /\ mpc # "encInvalid"
  /\ chan[c] # <<>>
  /\ LET ev == Head(chan[c])
         t == handlerTarget(c)
         after == onEvent(promise[t], ev)
     IN /\ promise' = [promise EXCEPT ![t] = after]
        /\ settled' = [settled EXCEPT ![t] =
                         IF after # promise[t] THEN Append(settled[t], <<c, ev.type>>)
                         ELSE settled[t]]
  /\ chan' = [chan EXCEPT ![c] = Tail(chan[c])]
  /\ UNCHANGED <<workerData, wstate>>
  /\ UNCHANGED <<arithVars, mrVars, keyVars, menuVars>>

\* Key tokens and payloads of the calls: the tokens of (65537, 221) and
\* (7, 33); the payloads "12" and "x" ("x" is no ciphertext: decrypting it
\* throws).  "NQ==" is the token of the one-field text "5".
PublicToken == generateKeysFrom(13, 17, PUBLIC_EXPONENT).publicKey
PrivateToken == generateKeysFrom(13, 17, PUBLIC_EXPONENT).privateKey
OneFieldToken == <<78, 81, 61, 61>>
WorkerKeys == {PublicToken, base64Encode(keyText(7, 33))}
WorkerPayloads == {<<49, 50>>, <<120>>}

Dispatch(c) ==
  /\ wstate[c] = "none"
  /\ \E action \in {"encrypt", "decrypt"}, m \in WorkerPayloads, key \in WorkerKeys :
       StartWorker(c, [action |-> action, message |-> m, key |-> key])
  /\ UNCHANGED <<arithVars, mrVars, keyVars, menuVars>>

WorkerInit ==
  /\ WorkersIdle
  /\ ArithIdle /\ MRIdle /\ KeysIdle /\ MenuIdle
WorkerNext ==
  \E c \in Calls :
    \/ Dispatch(c)
    \/ WorkerRun(c)
    \/ WorkerExit(c)
    \/ HandleEvent(c)
SpecWorker == WorkerInit /\ [][WorkerNext]_vars

(***************************************************************************)
(* The console: main's loop over displayMenu, askQuestion, processChoice.  *)
(* The flows of choice 2 and 3 dispatch through call 1; a new call waits   *)
(* until the previous worker's events are handled.  lastPrint is the last  *)
(* line written to the console.                                            *)
(***************************************************************************)
\* Texts typed at "Enter the RSA public key": a generated token, "", the
\* one-field token, "LA==" (the text ","), and "!" (not base64).
CommaToken == <<76, 65, 61, 61>>
EncKeyInputs == {PublicToken, <<>>, OneFieldToken, CommaToken, <<33>>}
\* Texts typed at "Enter the RSA private key".
DecKeyInputs == {PrivateToken, OneFieldToken}
EncMessageInputs == {<<>>, <<65>>}
\* Texts typed at "Enter the encrypted message": "", "x" and "65", the
\* encryption of "A" under PublicToken.
DecMessageInputs == {<<>>, <<120>>, <<54, 53>>}
BitLengthInputs == {8, 16, 32}

\* validateKey once atob has returned.
validateKey(text) == ~(Len(Split(text)) < 2)

\* An exception that leaves main(): its promise is rejected, the loop is over.
MainThrows == mainState' = "rejected" /\ mpc' = "dead"

ChooseCreate ==
  /\ mpc = "menu"
  /\ mpc' = "create"
  /\ lastPrint' = "menu"
  /\ UNCHANGED <<mainState, proc, inKey, errLines>>
  /\ UNCHANGED <<arithVars, mrVars, keyVars, workerVars>>

ChooseEncrypt ==
  /\ mpc = "menu"
  /\ mpc' = "encKey"
  /\ lastPrint' = "menu"
  /\ UNCHANGED <<mainState, proc, inKey, errLines>>
  /\ UNCHANGED <<arithVars, mrVars, keyVars, workerVars>>

ChooseDecrypt ==
  /\ mpc = "menu"
  /\ mpc' = "decKey"
  /\ lastPrint' = "menu"
  /\ UNCHANGED <<mainState, proc, inKey, errLines>>
  /\ UNCHANGED <<arithVars, mrVars, keyVars, workerVars>>

ChooseExit ==
  /\ mpc = "menu"
  /\ mpc' = "exited"
  /\ proc' = "exit0"
  /\ lastPrint' = "menu"
  /\ UNCHANGED <<mainState, inKey, errLines>>
  /\ UNCHANGED <<arithVars, mrVars, keyVars, workerVars>>

ChooseInvalid ==
  /\ mpc = "menu"
  /\ mpc' = "menu"
  /\ lastPrint' = "invalidChoice"
  /\ UNCHANGED <<mainState, proc, inKey, errLines>>
  /\ UNCHANGED <<arithVars, mrVars, keyVars, workerVars>>

\* createRSAKey: asks again below 16, else prints the tokens that
\* generateKeys returns (SpecKeys models that call; nothing of it is kept).
CreateRSAKey ==
  /\ mpc = "create"
  /\ \E b \in BitLengthInputs :
       IF b < 16
         THEN mpc' = "create" /\ lastPrint' = "bitLengthError"
         ELSE mpc' = "menu" /\ lastPrint' = "keys"
  /\ UNCHANGED <<mainState, proc, inKey, errLines>>
  /\ UNCHANGED <<arithVars, mrVars, keyVars, workerVars>>

\* encryptMessage up to the first pass of its loop.
EncAskKey ==
  /\ mpc = "encKey"
  /\ \E key \in EncKeyInputs :
       /\ inKey' = key
       /\ IF ~atob(key).ok
            THEN MainThrows /\ UNCHANGED <<lastPrint, errLines>>
          ELSE IF validateKey(atob(key).val)
            THEN mpc' = "encMsg" /\ UNCHANGED <<mainState, lastPrint, errLines>>
          ELSE /\ mpc' = "encInvalid"
               /\ lastPrint' = "invalidKey"
               /\ errLines' = 1
               /\ UNCHANGED mainState
  /\ UNCHANGED proc
  /\ UNCHANGED <<arithVars, mrVars, keyVars, workerVars>>

\* while (isVaildKey === false): the error line is printed again, without
\* end; errLines counts the printed lines modulo MaxErrLines.
EncInvalidLoop ==
  /\ mpc = "encInvalid"
  /\ proc = "running"
  /\ errLines' = (errLines % MaxErrLines) + 1
  /\ UNCHANGED <<mpc, mainState, proc, inKey, lastPrint>>
  /\ UNCHANGED <<arithVars, mrVars, keyVars, workerVars>>

EncAskMessage ==
  /\ mpc = "encMsg"
  /\ WorkerFree(1)
  /\ \E m \in EncMessageInputs :
       StartWorker(1, [action |-> "encrypt", message |-> m, key |-> inKey])
  /\ mpc' = "encAwait"
  /\ UNCHANGED <<mainState, proc, inKey, lastPrint, errLines>>
  /\ UNCHANGED <<arithVars, mrVars, keyVars>>

EncResume ==
  /\ mpc = "encAwait"
  /\ proc = "running"
  /\ promise[1].state # "pending"
  /\ IF promise[1].state = "resolved"
       THEN mpc' = "menu" /\ lastPrint' = "encrypted" /\ UNCHANGED mainState
       ELSE MainThrows /\ UNCHANGED lastPrint
  /\ UNCHANGED <<proc, inKey, errLines>>
  /\ UNCHANGED <<arithVars, mrVars, keyVars, workerVars>>

DecAskKey ==
  /\ mpc = "decKey"
  /\ \E key \in DecKeyInputs : inKey' = key
  /\ mpc' = "decMsg"
  /\ UNCHANGED <<mainState, proc, lastPrint, errLines>>
  /\ UNCHANGED <<arithVars, mrVars, keyVars, workerVars>>

DecAskMessage ==
  /\ mpc = "decMsg"
  /\ WorkerFree(1)
  /\ \E m \in DecMessageInputs :
       StartWorker(1, [action |-> "decrypt", message |-> m, key |-> inKey])
  /\ mpc' = "decAwait"
  /\ UNCHANGED <<mainState, proc, inKey, lastPrint, errLines>>
  /\ UNCHANGED <<arithVars, mrVars, keyVars>>

DecResume ==
  /\ mpc = "decAwait"
  /\ proc = "running"
  /\ promise[1].state # "pending"
  /\ IF promise[1].state = "resolved"
       THEN mpc' = "menu" /\ lastPrint' = "decrypted" /\ UNCHANGED mainState
       ELSE MainThrows /\ UNCHANGED lastPrint
  /\ UNCHANGED <<proc, inKey, errLines>>
  /\ UNCHANGED <<arithVars, mrVars, keyVars, workerVars>>

\* The rejection of main() is handled nowhere: the runtime ends the process.
UnhandledRejection ==
  /\ mainState = "rejected"
  /\ proc = "running"
  /\ proc' = "exit1"
  /\ UNCHANGED <<mpc, mainState, inKey, lastPrint, errLines>>
  /\ UNCHANGED <<arithVars, mrVars, keyVars, workerVars>>

MenuInit ==
  /\ mpc = "menu" /\ mainState = "running" /\ proc = "running"
  /\ inKey = <<>> /\ lastPrint = "welcome" /\ errLines = 0
  /\ WorkersIdle
  /\ ArithIdle /\ MRIdle /\ KeysIdle
MenuNext ==
  \/ ChooseCreate
  \/ ChooseEncrypt
  \/ ChooseDecrypt
  \/ ChooseExit
  \/ ChooseInvalid
  \/ CreateRSAKey
  \/ EncAskKey
  \/ EncInvalidLoop
  \/ EncAskMessage
  \/ EncResume
  \/ DecAskKey
  \/ DecAskMessage
  \/ DecResume
  \/ UnhandledRejection
  \/ WorkerRun(1)
  \/ WorkerExit(1)
  \/ HandleEvent(1)
SpecMenu == MenuInit /\ [][MenuNext]_vars

\* The main thread takes its next step, the user answers every question,
\* and a worker thread runs to its end: it stays neither in "running" nor
\* between its last statement and its exit (the weak fairness of
\* WorkerRun(1) and WorkerExit(1), stated on the states they leave).
Choose == ChooseCreate \/ ChooseEncrypt \/ ChooseDecrypt \/ ChooseExit \/ ChooseInvalid
FairSpecMenu ==
  /\ SpecMenu
  /\ WF_vars(Choose)
  /\ WF_vars(CreateRSAKey)
  /\ WF_vars(EncAskKey)
  /\ WF_vars(EncInvalidLoop)
  /\ WF_vars(EncAskMessage)
  /\ WF_vars(EncResume)
  /\ WF_vars(DecAskKey)
  /\ WF_vars(DecAskMessage)
  /\ WF_vars(DecResume)
  /\ WF_vars(UnhandledRejection)
  /\ WF_vars(HandleEvent(1))
  /\ []<>(wstate[1] # "running")
  /\ []<>(wstate[1] \notin {"posted", "faulted"})

(***************************************************************************)
(* Properties of the arithmetic primitives (SpecArith).                    *)
(***************************************************************************)

\* C7: for every base >= 0, exponent >= 0 and modulus > 0, modPow returns
\* base^exponent mod modulus, a value of 0..modulus-1.
C7_ModPowIsPower ==
  fn = "modPow" =>
    /\ ret = RefPow(args[1], args[2], args[3])
    /\ ret \in 0..(args[3] - 1)

\* modPow agrees with the power whenever modulus > 1 or exponent > 0.
C7_ModPowExceptUnitModulus ==
  (fn = "modPow" /\ (args[3] > 1 \/ args[2] > 0)) =>
    /\ ret = RefPow(args[1], args[2], args[3])
    /\ ret \in 0..(args[3] - 1)

\* C6 as stated: for coprime a >= 1, m >= 1 (m = 1 included) modInverse
\* returns x in 0..m-1 with (a * x) mod m = 1.
C6_InverseIncludingUnitModulus ==
  fn = "modInverse" =>
    /\ ret \in 0..(args[2] - 1)
    /\ (args[1] * ret) % args[2] = 1

\* C6 amended: for coprime a >= 1, m >= 1 modInverse returns x in 0..m-1
\* with (a * x) mod m = 1 mod m: 1 when m >= 2, and 0 when m = 1, where
\* the result is 0.
C6_InverseCorrect ==
  fn = "modInverse" =>
    /\ ret \in 0..(args[2] - 1)
    /\ (args[1] * ret) % args[2] = 1 % args[2]
    /\ (args[2] = 1 => ret = 0)

\* The inverse of e = 65537 modulo a smaller m whose raw coefficient is
\* negative, so that the final correction acts.
C6_Witness ==
  /\ fn = "modInverse"
  /\ args[1] = PUBLIC_EXPONENT
  /\ args[2] > 1
  /\ modInverseLoop(args[1], args[2], 0, 1) < 0
  /\ (args[1] * ret) % args[2] = 1

(***************************************************************************)
(* Properties of the Miller-Rabin test (SpecMR).                           *)
(***************************************************************************)
MRDone == mrVerdict \in {"prime", "composite"}

\* C5 as stated: the test returns true for every prime and false for every
\* composite, whichever witnesses the rounds draw.
C5_SoundForAllWitnesses ==
  MRDone => ((mrVerdict = "prime") <=> IsPrime(mrN))

\* C5 amended: the test returns true for every prime whichever witnesses are
\* drawn; for a composite n it returns false unless n is odd and every one
\* of the K rounds drew a strong liar for n (n - 1 always is one).
C5_SoundUnlessAllLiars ==
  MRDone =>
    /\ IsPrime(mrN) => mrVerdict = "prime"
    /\ ~IsPrime(mrN) =>
         ((mrVerdict = "prime") <=> (mrN > 2 /\ mrN % 2 = 1 /\ mrLiars /\ mrI = K))

\* The Carmichael number 561 rejected after a round that passed.
C5_Witness ==
  mrN = 561 /\ mrVerdict = "composite" /\ mrI >= 1 /\ ~mrLiars

(***************************************************************************)
(* Properties of key generation and the cipher (SpecKeys).                 *)
(***************************************************************************)
IsPrintable(m) == \A i \in 1..Len(m) : m[i] >= 32 /\ m[i] <= 126

\* C1: for every key pair generateKeys returns whose modulus exceeds every
\* character code of a printable-ASCII m, decrypting the encryption of m
\* gives m back.
C1_RoundTrip ==
  (kpc = "done" /\ IsPrintable(message)
     /\ \A i \in 1..Len(message) : message[i] < keys.n) =>
    (decrypted.ok /\ decrypted.val = message)

\* C8: the ciphertext carries one decimal unit per character of m with no
\* trailing comma, for m of length 0 and up, and decryptWorker parses and
\* returns exactly as many units and characters as m has characters.
C8_OneUnitPerCharacter ==
  kpc = "done" =>
    /\ encrypted.ok /\ decrypted.ok
    /\ (Len(encrypted.val) > 0 => encrypted.val[Len(encrypted.val)] # Comma)
    /\ Len(message) = Cardinality({i \in 1..Len(encrypted.val) : encrypted.val[i] = Comma})
                      + (IF Len(message) = 0 THEN 0 ELSE 1)
    /\ Len(Split(encrypted.val)) = Len(message)
    /\ Len(decrypted.val) = Len(message)

\* The shape holds for every plaintext of at least one character.
C8_ShapeOfNonEmpty ==
  (kpc = "done" /\ Len(message) > 0) =>
    /\ encrypted.ok /\ decrypted.ok
    /\ encrypted.val[Len(encrypted.val)] # Comma
    /\ Len(Split(encrypted.val)) = Len(message)
    /\ \A i \in 1..Len(message) : BigInt(Split(encrypted.val)[i]).ok
    /\ Len(decrypted.val) = Len(message)

\* C9: every candidate of generateRandomOddNumber has exactly the requested
\* number of bits and is odd, and so is every value generatePrime returns.
C9_CandidateOddOfExactLength ==
  /\ (cand # 0 =>
        /\ cand % 2 = 1
        /\ cand >= 2 ^ (HalfBits - 1) /\ cand < 2 ^ HalfBits)
  /\ \A i \in 1..Len(primes) : primes[i] % 2 = 1

\* Every candidate has exactly the requested number of bits.
C9_CandidateOfExactLength ==
  cand # 0 => (cand >= 2 ^ (HalfBits - 1) /\ cand < 2 ^ HalfBits)

\* The round trip of a non-empty message under distinct primes p, q.
C1_RoundTripDistinctPrimes ==
  (kpc = "done" /\ Len(message) > 0
     /\ \A i \in 1..Len(message) : message[i] < keys.n
     /\ IsPrime(keys.p) /\ IsPrime(keys.q) /\ keys.p # keys.q) =>
    (decrypted.ok /\ decrypted.val = message)

(***************************************************************************)
(* Properties of the offload protocol (SpecWorker).                        *)
(***************************************************************************)
Terminated(c) == wstate[c] = "exited" /\ chan[c] = <<>>

\* C2: every dispatched call is settled exactly once: resolved with the
\* result message of its worker, or rejected when the worker raised an
\* error or exited with a non-zero code; once the worker has terminated and
\* its events are handled the promise is not pending, and no later event
\* changes a settled outcome.
C2_SettledExactlyOnce ==
  \A c \in Calls :
    /\ Len(settled[c]) <= 1
    /\ (promise[c].state # "pending") <=> (Len(settled[c]) = 1)
    /\ Terminated(c) => promise[c].state # "pending"
    /\ promise[c].state = "resolved" =>
         /\ workerResult(workerData[c]).ok
         /\ promise[c].value = workerResult(workerData[c]).val
    /\ promise[c].state = "rejected" => exitCode(workerData[c]) # 0

\* A call rejected by its worker's error event, with the later exit event
\* of code 1 handled and the outcome still the first one.
C2_Witness ==
  \E c \in Calls :
    /\ Terminated(c)
    /\ promise[c] = [state |-> "rejected", value |-> <<>>, reason |-> "error"]
    /\ settled[c] = <<<<c, "error">>>>

\* C3: with several calls outstanding, under every interleaving a promise
\* is changed only by an event of its own worker; it resolves with the
\* result of its own payload and key, and a faulting worker rejects its own
\* call only.
C3_Isolation ==
  \A c \in Calls :
    /\ \A i \in 1..Len(settled[c]) : settled[c][i][1] = c
    /\ promise[c].state = "resolved" =>
         promise[c].value = workerResult(workerData[c]).val
    /\ promise[c].state = "rejected" => ~workerResult(workerData[c]).ok
    /\ (wstate[c] = "none" \/ workerResult(workerData[c]).ok) =>
         promise[c].state # "rejected"

\* Two calls with distinct payload and key dispatched together: the first
\* faulted and is rejected, the second is resolved with its own result.
C3_Witness ==
  /\ workerData[1].message # workerData[2].message
  /\ workerData[1].key # workerData[2].key
  /\ promise[1].state = "rejected"
  /\ promise[2].state = "resolved"
  /\ promise[2].value = workerResult(workerData[2]).val
  /\ wstate[1] # "exited"

(***************************************************************************)
(* Properties of the console (SpecMenu, FairSpecMenu).                     *)
(***************************************************************************)

\* C4: when an encrypt or decrypt operation fails, the host process is not
\* terminated: the main thread keeps running its menu loop.
C4_FailureKeepsMenuRunning ==
  (mpc \notin {"encAwait", "decAwait"} /\ promise[1].state = "rejected") =>
    (mainState = "running" /\ proc = "running" /\ mpc # "dead")

\* C10: whatever public key the user enters at choice 2, encryptMessage
\* returns and the menu is displayed again, unless the worker did not
\* deliver a result.
C10_EncryptFlowReturnsToMenu ==
  (mpc = "encKey") ~> (mpc = "menu" \/ promise[1].state = "rejected")

\* With a key that validateKey accepts and a worker that delivers, the
\* flow of choice 2 returns to the menu.
C10_AcceptedKeyReturnsToMenu ==
  (mpc = "encMsg") ~> (mpc = "menu" \/ promise[1].state = "rejected")

====
